---- MODULE Spec2Model ----
(***************************************************************************)
(* Sound Blaster 16 driver (sb16_driver.c) and its consumer program        *)
(* (user_level_program.c) as a state machine.                              *)
(*                                                                         *)
(* The driver's three entry points (sb16_init, sb16_copy_status,           *)
(* sb16_shutdown) run as sequences of steps of a caller; the card and the  *)
(* interrupt it raises at every half-buffer boundary run beside them.      *)
(***************************************************************************)
EXTENDS Integers, Sequences, FiniteSets, TLC

(***************************************************************************)
(* Constants of sb16.h (the header is not part of the sources; the values  *)
(* are the ones the code's use of them and the specification fix).         *)
(***************************************************************************)
\* the byte the DSP presents on its read port once it has been reset
SUCCESS_VAL == 170
\* "WAVE" read as a little-endian word after the byte reversal
WAV_MAGIC == 1463899717
NCHANNELS == 2
_16BITS == 16
TWOTO16 == 65536
FOUR_B == 4
\* bytes in one buffer half, and the number of halves
BUF_SIZE == 32768
BUF_DIM == 2

(***************************************************************************)
(* Bounds of the model.                                                    *)
(***************************************************************************)
\* the poll budget of sb16_reset: sb16.h's WAITLOOP, scaled down
WAITLOOP == 2
\* half-buffer interrupts the card raises in one session
MaxIrq == 3
\* data blocks (of BUF_SIZE bytes) in the consumer's file
MaxBlocks == 5

Callers == {1, 2}
\* a pointer to a header: NULL, or the header it points to
NULL == <<>>
Ptr(h) == <<h>>

\* addresses tried for the placement of the buffer: the pages 0x40, 0x41, 0x51,
\* 0xFF and 0x140 (above 16 MiB), each at the offsets 0, 0x8000, 0xA2C0,
\* 0xA2C1 (odd) and 0xFFFE
PlacementAddrs ==
  {page * TWOTO16 + off : page \in {64, 65, 81, 255, 320},
                          off \in {0, 32768, 41664, 41665, 65534}}

\* bytes the read port can present: the ready byte, and another
ReadVals == {SUCCESS_VAL, 255}

\* addresses the linker may give the static buffer
BufferAddrs == {4194304, 5308416}

\* the tag at WAV_MAGIC_LOC: "WAVE", "EVAW", and "WA\0E"
MagicWave == <<87, 65, 86, 69>>
MagicRev == <<69, 86, 65, 87>>
MagicNul == <<87, 65, 0, 69>>
\* the format-chunk tag: "fmt ", and "data"
FmtTag == <<102, 109, 116, 32>>
FmtOther == <<100, 97, 116, 97>>

\* the header fields the driver reads, and the format-chunk tag it does not
AllHeaders ==
  [wav_magic : {MagicWave, MagicRev, MagicNul}, fmt_chunk : {FmtTag, FmtOther},
   format : {1, 17}, nchannels : {1, 2}, rate : {44100, 96000}, bps : {8, 16}]

\* the headers the model feeds to sb16_init: every combination of the checked
\* fields; the second rate with the right format-chunk tag only, and the tag
\* holding a NUL on an otherwise valid header only
Headers ==
  {h \in AllHeaders :
     /\ h.rate = 96000 => h.fmt_chunk = FmtTag
     /\ h.wav_magic = MagicNul =>
          /\ h.fmt_chunk = FmtTag /\ h.format = 1 /\ h.nchannels = 2
          /\ h.bps = 16 /\ h.rate = 44100}

VARIABLES
  in_use,       \* sb16_driver.c:9   card usage flag
  int_flag,     \* sb16_driver.c:11  interrupt status flag
  buffer,       \* sb16_driver.c:13  address of the static DMA buffer
  irq_on,       \* the SB16 interrupt line is enabled at the interrupt controller
  pc,           \* per caller: position inside the driver ("idle": not in a call)
  op,           \* per caller: the entry point being run, or run last
  last,         \* per caller: the entry point run before op
  info_block,   \* per caller: argument of sb16_init
  i,            \* per caller: local i of sb16_reset
  rd,           \* per caller: read-port reads of the current sb16_reset
  got,          \* per caller: last byte dsp_read returned in the current sb16_reset
  rst,          \* per caller: value returned by sb16_reset
  k,            \* per caller: index of the next byte of dma_init / dsp_init
  ret,          \* per caller: value returned by the last call
  msg,          \* per caller: message printed by the last call
  io,           \* per caller: port accesses of the call in progress, in order
  poll_rdy,     \* card: bit 7 of SB16_POLL_PORT (a byte waits on the read port)
  write_bsy,    \* card: bit 7 of SB16_WRITE_PORT (the DSP cannot take a byte)
  playing,      \* card: the DSP is armed and transfers the buffer
  hw_half,      \* card: the buffer half the DMA transfer is in
  toggles,      \* interrupts handled since the DSP was armed
  seen,         \* sb16_copy_status after each interrupt since int_flag was last set to 1
  mpc,          \* consumer: position in main
  init_retval,  \* user_level_program.c:28
  prev_cstatus, \* user_level_program.c:29
  temp,         \* user_level_program.c:30
  fleft,        \* consumer: blocks left in the file
  refills,      \* consumer: refills done in the loop
  wr,           \* consumer: last refill, <<half written, half the card was in>>
  fread,        \* consumer: blocks read from the file so far
  held,         \* per half: the number of the file's block it holds (0: none)
  played        \* the blocks the card has finished playing, in order

drv == <<in_use, int_flag, buffer, irq_on>>
call == <<pc, op, last, info_block, i, rd, got, rst, k, ret, msg, io>>
card == <<poll_rdy, write_bsy, playing, hw_half, toggles, seen>>
cons == <<mpc, init_retval, prev_cstatus, temp, fleft, refills, wr, fread, held, played>>
vars == <<drv, call, card, cons>>

----------------------------------------------------------------------------
(* Pure helpers *)

\* a port access: the port, the constant or expression written, its value
W(port, sym, val) == [port |-> port, sym |-> sym, val |-> val]

lo_byte(word) == word % 256

hi_byte(word) == (word \div 256) % 256

ToInt32_short(x) == x % 65536

\* (int32_t) of a 32-bit unsigned value: above INT32_MAX it wraps by 2^32
ToInt32(x) == IF x > 2147483647 THEN ((x - 2147483647) - 2147483647) - 2 ELSE x

Not_zero(x) == 0

\* C's ! on an int
Not(x) == IF x = 0 THEN 1 ELSE 0

\* strlen of a NUL-terminated byte array
strlen(s) ==
  IF \E j \in 1..Len(s) : s[j] = 0
  THEN (CHOOSE j \in 1..Len(s) : s[j] = 0 /\ \A m \in 1..(j - 1) : s[m] # 0) - 1
  ELSE Len(s)

\* strrev: reverse, in place, the bytes before the first NUL
strrev(s) ==
  LET n == strlen(s)
  IN  [j \in 1..Len(s) |-> IF j <= n THEN s[n + 1 - j] ELSE s[j]]

\* *((uint32_t*) b) on a little-endian machine
U32(b) == b[1] + 256 * b[2] + 65536 * b[3] + 16777216 * b[4]

\* wav_check after memcpy and strrev (FOUR_B bytes and the terminating 0)
wav_check(p) == strrev(SubSeq(p[1].wav_magic, 1, FOUR_B) \o <<0>>)

CheckHeader_format_first(p) ==
  IF p = NULL THEN "Info block invalid."
  ELSE IF p[1].format # 1 THEN "Only uncompressed music is supported."
  ELSE IF U32(wav_check(p)) # WAV_MAGIC THEN "Not a wav file."
  ELSE IF p[1].nchannels # NCHANNELS \/ p[1].bps # _16BITS
       THEN "Only 16-bit stereo audio is supported."
  ELSE "ok"

\* the message of the first check of sb16_init the header fails, or "ok"
CheckHeader(p) ==
  IF p = NULL THEN "Info block invalid."
  ELSE IF U32(wav_check(p)) # WAV_MAGIC THEN "Not a wav file."
  ELSE IF p[1].format # 1 THEN "Only uncompressed music is supported."
  ELSE IF p[1].nchannels # NCHANNELS \/ p[1].bps # _16BITS
       THEN "Only 16-bit stereo audio is supported."
  ELSE "ok"

\* sample_rate: the uint16 at SAMPLE_RATE_LOC
sample_rate(p) == p[1].rate % TWOTO16

\* the address of buffer[n]
buffer_half(n) == buffer + n * BUF_SIZE

buf_offset_noshift == buffer % TWOTO16

buf_offset == (buffer \div 2) % TWOTO16

buf_page == (buffer \div TWOTO16) % 256

dma_init_no_unmask(offset, length, page) ==
  << W("DMA_MASK_PORT", "DMA_STOP_MASK", 0),
     W("DMA_CLR_PTR_PORT", "0", 0),
     W("DMA_MODE_PORT", "DMA_MODE", 0),
     W("DMA_BASE_ADDR", "lo_byte(buf_offset)", lo_byte(offset)),
     W("DMA_BASE_ADDR", "hi_byte(buf_offset)", hi_byte(offset)),
     W("DMA_COUNT_PORT", "lo_byte(buf_length)", lo_byte(length)),
     W("DMA_COUNT_PORT", "hi_byte(buf_length)", hi_byte(length)),
     W("DMA_PAGE_PORT", "buf_page", page) >>

dma_init_hi_first(offset, length, page) ==
  << W("DMA_MASK_PORT", "DMA_STOP_MASK", 0),
     W("DMA_CLR_PTR_PORT", "0", 0),
     W("DMA_MODE_PORT", "DMA_MODE", 0),
     W("DMA_BASE_ADDR", "hi_byte(buf_offset)", hi_byte(offset)),
     W("DMA_BASE_ADDR", "lo_byte(buf_offset)", lo_byte(offset)),
     W("DMA_COUNT_PORT", "lo_byte(buf_length)", lo_byte(length)),
     W("DMA_COUNT_PORT", "hi_byte(buf_length)", hi_byte(length)),
     W("DMA_PAGE_PORT", "buf_page", page),
     W("DMA_MASK_PORT", "DMA_START_MASK", 0) >>

\* the port writes of dma_init, in order
dma_init(offset, length, page) ==
  << W("DMA_MASK_PORT", "DMA_STOP_MASK", 0),
     W("DMA_CLR_PTR_PORT", "0", 0),
     W("DMA_MODE_PORT", "DMA_MODE", 0),
     W("DMA_BASE_ADDR", "lo_byte(buf_offset)", lo_byte(offset)),
     W("DMA_BASE_ADDR", "hi_byte(buf_offset)", hi_byte(offset)),
     W("DMA_COUNT_PORT", "lo_byte(buf_length)", lo_byte(length)),
     W("DMA_COUNT_PORT", "hi_byte(buf_length)", hi_byte(length)),
     W("DMA_PAGE_PORT", "buf_page", page),
     W("DMA_MASK_PORT", "DMA_START_MASK", 0) >>

dsp_init_lo_first(rate, block_length) ==
  << W("SB16_WRITE_PORT", "DSP_OUT_RATE_CMD", 0),
     W("SB16_WRITE_PORT", "lo_byte(sample_rate)", lo_byte(rate)),
     W("SB16_WRITE_PORT", "hi_byte(sample_rate)", hi_byte(rate)),
     W("SB16_WRITE_PORT", "DSP_BCOMMAND", 0),
     W("SB16_WRITE_PORT", "DSP_BMODE", 0),
     W("SB16_WRITE_PORT", "lo_byte(block_length)", lo_byte(block_length)),
     W("SB16_WRITE_PORT", "hi_byte(block_length)", hi_byte(block_length)) >>

\* the bytes dsp_init hands to dsp_write, in order
dsp_init(rate, block_length) ==
  << W("SB16_WRITE_PORT", "DSP_OUT_RATE_CMD", 0),
     W("SB16_WRITE_PORT", "hi_byte(sample_rate)", hi_byte(rate)),
     W("SB16_WRITE_PORT", "lo_byte(sample_rate)", lo_byte(rate)),
     W("SB16_WRITE_PORT", "DSP_BCOMMAND", 0),
     W("SB16_WRITE_PORT", "DSP_BMODE", 0),
     W("SB16_WRITE_PORT", "lo_byte(block_length)", lo_byte(block_length)),
     W("SB16_WRITE_PORT", "hi_byte(block_length)", hi_byte(block_length)) >>

\* one evaluation of the loop condition of sb16_reset after dsp_read returned v
\* with the counter at n: <<the loop goes on, the counter after it>>
ResetCond(v, n) ==
  IF v = SUCCESS_VAL THEN <<FALSE, n>>
  ELSE <<n # 0, n - 1>>

\* the value sb16_reset returns once its loop has ended with the counter at n
ResetReturn(n) == n - 1

\* sb16_init's test of in_use
InUse_never(flag) == FALSE
InUse(flag) == flag # 0

\* sb16_init's test of the value sb16_reset returned
ResetFailed(r) == r = -1

----------------------------------------------------------------------------
(* Initial state: the driver's globals as initialized, no call in progress *)

InitDriver ==
  /\ in_use = 0
  /\ int_flag = 1
  /\ buffer \in BufferAddrs
  /\ irq_on = FALSE
  /\ pc = [c \in Callers |-> "idle"]
  /\ op = [c \in Callers |-> "none"]
  /\ last = [c \in Callers |-> "none"]
  /\ info_block = [c \in Callers |-> NULL]
  /\ i = [c \in Callers |-> 0]
  /\ rd = [c \in Callers |-> 0]
  /\ got = [c \in Callers |-> 0]
  /\ rst = [c \in Callers |-> 0]
  /\ k = [c \in Callers |-> 0]
  /\ ret = [c \in Callers |-> 0]
  /\ msg = [c \in Callers |-> ""]
  /\ io = [c \in Callers |-> <<>>]
  /\ poll_rdy = FALSE
  /\ write_bsy = FALSE
  /\ playing = FALSE
  /\ hw_half = 0
  /\ toggles = 0
  /\ seen = <<>>

Init ==
  /\ InitDriver
  /\ mpc = "off"
  /\ init_retval = 0
  /\ prev_cstatus = 0
  /\ temp = 0
  /\ fleft = 0
  /\ refills = 0
  /\ wr = <<>>
  /\ fread = 0
  /\ held = [h \in 0..(BUF_DIM - 1) |-> 0]
  /\ played = <<>>

----------------------------------------------------------------------------
(* Entering and leaving a driver call *)

\* caller c enters entry point f at label l with argument h
Enter(c, f, l, h) ==
  /\ pc[c] = "idle"
  /\ pc' = [pc EXCEPT ![c] = l]
  /\ op' = [op EXCEPT ![c] = f]
  /\ last' = [last EXCEPT ![c] = op[c]]
  /\ info_block' = [info_block EXCEPT ![c] = h]
  /\ i' = [i EXCEPT ![c] = 0]
  /\ rd' = [rd EXCEPT ![c] = 0]
  /\ got' = [got EXCEPT ![c] = 0]
  /\ rst' = [rst EXCEPT ![c] = 0]
  /\ k' = [k EXCEPT ![c] = 0]
  /\ ret' = [ret EXCEPT ![c] = 0]
  /\ msg' = [msg EXCEPT ![c] = ""]
  /\ io' = [io EXCEPT ![c] = <<>>]

\* caller c returns v, having printed m
Return(c, v, m) ==
  /\ pc' = [pc EXCEPT ![c] = "idle"]
  /\ ret' = [ret EXCEPT ![c] = v]
  /\ msg' = [msg EXCEPT ![c] = m]

----------------------------------------------------------------------------
(* sb16_reset *)

\* outb(1), the delay loop, outb(0), i = WAITLOOP
sb16_reset_pulse(c) ==
  /\ pc[c] = "reset"
  /\ io' = [io EXCEPT ![c] = @ \o << W("SB16_RESET_PORT", "1", 1),
                                     W("SB16_RESET_PORT", "0", 0) >>]
  /\ playing' = FALSE
  /\ i' = [i EXCEPT ![c] = WAITLOOP]
  /\ pc' = [pc EXCEPT ![c] = "reset_poll"]
  /\ UNCHANGED <<drv, op, last, info_block, rd, got, rst, k, ret, msg>>
  /\ UNCHANGED <<poll_rdy, write_bsy, hw_half, toggles, seen>>
  /\ UNCHANGED cons

\* one dsp_read (it waits for bit 7 of the poll port) and the loop test on it
sb16_reset_poll(c) ==
  /\ pc[c] = "reset_poll"
  /\ poll_rdy
  /\ \E v \in ReadVals :
       LET r == ResetCond(v, i[c])
       IN  /\ got' = [got EXCEPT ![c] = v]
           /\ IF r[1]
              THEN /\ i' = [i EXCEPT ![c] = r[2]]
                   /\ UNCHANGED <<pc, rst>>
              ELSE /\ i' = [i EXCEPT ![c] = ResetReturn(r[2])]
                   /\ rst' = [rst EXCEPT ![c] = ResetReturn(r[2])]
                   /\ pc' = [pc EXCEPT ![c] = "reset_done"]
  /\ rd' = [rd EXCEPT ![c] = @ + 1]
  /\ poll_rdy' = FALSE
  /\ UNCHANGED <<drv, op, last, info_block, k, ret, msg, io>>
  /\ UNCHANGED <<write_bsy, playing, hw_half, toggles, seen>>
  /\ UNCHANGED cons

----------------------------------------------------------------------------
(* sb16_init *)

\* enable_irq, then the in_use check
sb16_init_enter(c) ==
  /\ pc[c] = "init"
  /\ irq_on' = TRUE
  /\ io' = [io EXCEPT ![c] = Append(@, W("PIC", "enable_irq(SB16_IRQ_LINE)", 0))]
  /\ IF InUse(in_use)
     THEN Return(c, -1, "Another process is using the SB16. Terminate it and try again.")
     ELSE /\ pc' = [pc EXCEPT ![c] = "reset"]
          /\ UNCHANGED <<ret, msg>>
  /\ UNCHANGED <<in_use, int_flag, buffer, op, last, info_block, i, rd, got, rst, k>>
  /\ UNCHANGED <<card, cons>>

\* the test of sb16_reset's value, then the checks of the header
sb16_init_check(c) ==
  /\ pc[c] = "reset_done"
  /\ op[c] = "sb16_init"
  /\ IF ResetFailed(rst[c])
     THEN /\ Return(c, -1, "SB16 initialization failed. Check hardware.")
          /\ UNCHANGED k
     ELSE IF CheckHeader(info_block[c]) # "ok"
     THEN /\ Return(c, -1, CheckHeader(info_block[c]))
          /\ UNCHANGED k
     ELSE /\ pc' = [pc EXCEPT ![c] = "dma"]
          /\ k' = [k EXCEPT ![c] = 1]
          /\ UNCHANGED <<ret, msg>>
  /\ UNCHANGED <<drv, op, last, info_block, i, rd, got, rst, io>>
  /\ UNCHANGED <<card, cons>>

\* one outb of dma_init(buf_offset, BUF_SIZE - 1, buf_page)
sb16_init_dma(c) ==
  /\ pc[c] = "dma"
  /\ LET seq == dma_init(buf_offset, BUF_SIZE - 1, buf_page)
     IN  /\ io' = [io EXCEPT ![c] = Append(@, seq[k[c]])]
         /\ IF k[c] = Len(seq)
            THEN /\ pc' = [pc EXCEPT ![c] = "dsp"]
                 /\ k' = [k EXCEPT ![c] = 1]
            ELSE /\ k' = [k EXCEPT ![c] = @ + 1]
                 /\ UNCHANGED pc
  /\ UNCHANGED <<drv, op, last, info_block, i, rd, got, rst, ret, msg>>
  /\ UNCHANGED <<card, cons>>

\* one dsp_write of dsp_init: wait until bit 7 of the write port is clear, write;
\* the last byte of the playback command arms the DSP, which starts on half 0
sb16_init_dsp(c) ==
  /\ pc[c] = "dsp"
  /\ ~write_bsy
  /\ LET seq == dsp_init(sample_rate(info_block[c]), (BUF_SIZE \div BUF_DIM) - 1)
     IN  /\ io' = [io EXCEPT ![c] = Append(@, seq[k[c]])]
         /\ IF k[c] = Len(seq)
            THEN /\ pc' = [pc EXCEPT ![c] = "set_in_use"]
                 /\ k' = [k EXCEPT ![c] = 0]
                 /\ playing' = TRUE
                 /\ hw_half' = 0
                 /\ toggles' = 0
            ELSE /\ k' = [k EXCEPT ![c] = @ + 1]
                 /\ UNCHANGED <<pc, playing, hw_half, toggles>>
  /\ write_bsy' = TRUE
  /\ UNCHANGED <<drv, op, last, info_block, i, rd, got, rst, ret, msg>>
  /\ UNCHANGED <<poll_rdy, seen, cons>>

\* in_use = 1
sb16_init_in_use(c) ==
  /\ pc[c] = "set_in_use"
  /\ in_use' = 1
  /\ pc' = [pc EXCEPT ![c] = "set_int_flag"]
  /\ UNCHANGED <<int_flag, buffer, irq_on>>
  /\ UNCHANGED <<op, last, info_block, i, rd, got, rst, k, ret, msg, io>>
  /\ UNCHANGED <<card, cons>>

sb16_init_int_flag_zero(c) ==
  /\ pc[c] = "set_int_flag"
  /\ int_flag' = 0
  /\ seen' = <<>>
  /\ Return(c, ToInt32(buffer_half(0)), "")
  /\ UNCHANGED <<in_use, buffer, irq_on>>
  /\ UNCHANGED <<op, last, info_block, i, rd, got, rst, k, io>>
  /\ UNCHANGED <<poll_rdy, write_bsy, playing, hw_half, toggles, cons>>

\* int_flag = 1; return (int32_t)buffer
sb16_init_int_flag(c) ==
  /\ pc[c] = "set_int_flag"
  /\ int_flag' = 1
  /\ seen' = <<>>
  /\ Return(c, ToInt32(buffer_half(0)), "")
  /\ UNCHANGED <<in_use, buffer, irq_on>>
  /\ UNCHANGED <<op, last, info_block, i, rd, got, rst, k, io>>
  /\ UNCHANGED <<poll_rdy, write_bsy, playing, hw_half, toggles, cons>>

----------------------------------------------------------------------------
(* sb16_shutdown (it enters at sb16_reset and ignores the value returned) *)

\* in_use = 0
sb16_shutdown_in_use(c) ==
  /\ pc[c] = "reset_done"
  /\ op[c] = "sb16_shutdown"
  /\ in_use' = 0
  /\ pc' = [pc EXCEPT ![c] = "clr_int_flag"]
  /\ UNCHANGED <<int_flag, buffer, irq_on>>
  /\ UNCHANGED <<op, last, info_block, i, rd, got, rst, k, ret, msg, io>>
  /\ UNCHANGED <<card, cons>>

sb16_shutdown_int_flag_kept(c) ==
  /\ pc[c] = "clr_int_flag"
  /\ seen' = <<>>
  /\ Return(c, 0, "")
  /\ UNCHANGED <<in_use, int_flag, buffer, irq_on>>
  /\ UNCHANGED <<op, last, info_block, i, rd, got, rst, k, io>>
  /\ UNCHANGED <<poll_rdy, write_bsy, playing, hw_half, toggles, cons>>

\* int_flag = 1; return 0
sb16_shutdown_int_flag(c) ==
  /\ pc[c] = "clr_int_flag"
  /\ int_flag' = 1
  /\ seen' = <<>>
  /\ Return(c, 0, "")
  /\ UNCHANGED <<in_use, buffer, irq_on>>
  /\ UNCHANGED <<op, last, info_block, i, rd, got, rst, k, io>>
  /\ UNCHANGED <<poll_rdy, write_bsy, playing, hw_half, toggles, cons>>

----------------------------------------------------------------------------
(* sb16_copy_status: return int_flag *)

sb16_copy_status(c) ==
  /\ pc[c] = "idle"
  /\ op' = [op EXCEPT ![c] = "sb16_copy_status"]
  /\ last' = [last EXCEPT ![c] = op[c]]
  /\ Return(c, int_flag, "")
  /\ UNCHANGED <<drv, info_block, i, rd, got, rst, k, io>>
  /\ UNCHANGED card

----------------------------------------------------------------------------
(* sb16_interrupt: the card has finished a half and moved on to the other; *)
(* the handler toggles int_flag, acknowledges, sends EOI                    *)

sb16_interrupt ==
  /\ playing
  /\ irq_on
  /\ toggles < MaxIrq
  /\ hw_half' = 1 - hw_half
  /\ int_flag' = Not(int_flag)
  /\ toggles' = toggles + 1
  /\ seen' = Append(seen, int_flag')
  /\ played' = IF held[hw_half] # 0 THEN Append(played, held[hw_half]) ELSE played
  /\ UNCHANGED <<in_use, buffer, irq_on>>
  /\ UNCHANGED <<call, poll_rdy, write_bsy, playing>>
  /\ UNCHANGED <<mpc, init_retval, prev_cstatus, temp, fleft, refills, wr, fread, held>>

----------------------------------------------------------------------------
(* The card's status bits *)

\* a byte becomes available on the read port
card_data ==
  /\ ~poll_rdy
  /\ poll_rdy' = TRUE
  /\ UNCHANGED <<drv, call, write_bsy, playing, hw_half, toggles, seen, cons>>

\* the DSP has taken the byte written to it
card_accept ==
  /\ write_bsy
  /\ write_bsy' = FALSE
  /\ UNCHANGED <<drv, call, poll_rdy, playing, hw_half, toggles, seen, cons>>

----------------------------------------------------------------------------
(* A client that calls the three entry points in any order, one at a time *)

CallInit(c) ==
  /\ \E p \in {NULL} \cup {Ptr(h) : h \in Headers} : Enter(c, "sb16_init", "init", p)
  /\ UNCHANGED <<drv, card, cons>>

CallShutdown(c) ==
  /\ Enter(c, "sb16_shutdown", "reset", NULL)
  /\ UNCHANGED <<drv, card, cons>>

CallStatus(c) ==
  /\ sb16_copy_status(c)
  /\ UNCHANGED cons

\* a step of the driver on behalf of caller c
Driver(c) ==
  \/ sb16_init_enter(c)
  \/ sb16_reset_pulse(c)
  \/ sb16_reset_poll(c)
  \/ sb16_init_check(c)
  \/ sb16_init_dma(c)
  \/ sb16_init_dsp(c)
  \/ sb16_init_in_use(c)
  \/ sb16_init_int_flag(c)
  \/ sb16_shutdown_in_use(c)
  \/ sb16_shutdown_int_flag(c)

Card ==
  \/ card_data
  \/ card_accept
  \/ sb16_interrupt

Next ==
  \/ CallInit(1)
  \/ CallShutdown(1)
  \/ CallStatus(1)
  \/ Driver(1)
  \/ Card

Spec == Init /\ [][Next]_vars

\* the same with the processor running the driver's code whenever a step of
\* it can be taken; nothing is assumed of the card. A dsp_read or dsp_write
\* spinning on a status bit the card does not change is the call standing
\* still at that step
SpecCpu == Spec /\ WF_vars(Driver(1))

----------------------------------------------------------------------------
(* The consumer program, main of user_level_program.c, as caller 1 *)

\* buf_val[t]: the address of half t
buf_val(t) == init_retval + t * BUF_SIZE

InitMain ==
  /\ InitDriver
  /\ mpc = "start"
  /\ init_retval = 0
  /\ prev_cstatus = 0
  /\ temp = 0
  /\ fleft \in 0..MaxBlocks
  /\ refills = 0
  /\ wr = <<>>
  /\ fread = 0
  /\ held = [h \in 0..(BUF_DIM - 1) |-> 0]
  /\ played = <<>>

\* init_retval = ece391_audio_init(info_block), on the header read from the file
main_init ==
  /\ mpc = "start"
  /\ \E h \in Headers : Enter(1, "sb16_init", "init", Ptr(h))
  /\ mpc' = "init"
  /\ UNCHANGED <<drv, card>>
  /\ UNCHANGED <<init_retval, prev_cstatus, temp, fleft, refills, wr, fread, held, played>>

\* if (init_retval == -1) return 0
main_init_ret ==
  /\ mpc = "init"
  /\ pc[1] = "idle"
  /\ init_retval' = ret[1]
  /\ mpc' = IF ret[1] = -1 THEN "exit" ELSE "fill0"
  /\ UNCHANGED <<drv, call, card>>
  /\ UNCHANGED <<prev_cstatus, temp, fleft, refills, wr, fread, held, played>>

\* ece391_read into buf_val[0], then into buf_val[1]
main_fill ==
  /\ mpc \in {"fill0", "fill1"}
  /\ fleft' = IF fleft > 0 THEN fleft - 1 ELSE 0
  /\ fread' = IF fleft > 0 THEN fread + 1 ELSE fread
  /\ held' = IF fleft > 0
              THEN [held EXCEPT ![IF mpc = "fill0" THEN 0 ELSE 1] = fread + 1]
              ELSE held
  /\ mpc' = IF mpc = "fill0" THEN "fill1" ELSE "loop"
  /\ UNCHANGED <<drv, call, card>>
  /\ UNCHANGED <<init_retval, prev_cstatus, temp, refills, wr, played>>

\* temp = ece391_audio_cstatus(); if (prev_cstatus != temp)
main_cstatus ==
  /\ mpc = "loop"
  /\ sb16_copy_status(1)
  /\ temp' = ret'[1]
  /\ mpc' = IF prev_cstatus # temp' THEN "refill" ELSE "loop"
  /\ UNCHANGED <<init_retval, prev_cstatus, fleft, refills, wr, fread, held, played>>

\* ece391_read into buf_val[temp]: at the end of the file shut the card down,
\* else prev_cstatus = temp
main_refill ==
  /\ mpc = "refill"
  /\ IF fleft = 0
     THEN /\ Enter(1, "sb16_shutdown", "reset", NULL)
          /\ mpc' = "shutdown"
          /\ UNCHANGED <<prev_cstatus, fleft, refills, wr, fread, held>>
     ELSE /\ fleft' = fleft - 1
          /\ fread' = fread + 1
          /\ held' = [held EXCEPT ![temp] = fread + 1]
          /\ refills' = refills + 1
          /\ wr' = <<temp, hw_half>>
          /\ prev_cstatus' = temp
          /\ mpc' = "loop"
          /\ UNCHANGED call
  /\ UNCHANGED <<drv, card, init_retval, temp, played>>

\* return 0 once ece391_audio_shutdown has returned
main_exit ==
  /\ mpc = "shutdown"
  /\ pc[1] = "idle"
  /\ mpc' = "exit"
  /\ UNCHANGED <<drv, call, card>>
  /\ UNCHANGED <<init_retval, prev_cstatus, temp, fleft, refills, wr, fread, held, played>>

Main ==
  \/ main_init
  \/ main_init_ret
  \/ main_fill
  \/ main_cstatus
  \/ main_refill
  \/ main_exit

NextMain ==
  \/ Main
  \/ Driver(1)
  \/ Card

SpecMain == InitMain /\ [][NextMain]_vars

\* the handler run for an interrupt beyond the MaxIrq the history counts: the
\* card goes on raising one at every half for as long as it plays
sb16_interrupt_more ==
  /\ playing
  /\ irq_on
  /\ toggles = MaxIrq
  /\ hw_half' = 1 - hw_half
  /\ int_flag' = Not(int_flag)
  /\ UNCHANGED <<in_use, buffer, irq_on>>
  /\ UNCHANGED <<call, poll_rdy, write_bsy, playing, toggles, seen, cons>>

NextMainLive ==
  \/ Main
  \/ Driver(1)
  \/ Card
  \/ sb16_interrupt_more

\* the consumer and the driver are scheduled whenever they can take a step;
\* the card presents a byte for every read, takes every byte written and,
\* while it plays, raises an interrupt at the end of every half
SpecMainFair ==
  /\ InitMain /\ [][NextMainLive]_vars
  /\ WF_vars(Main)
  /\ WF_vars(Driver(1))
  /\ WF_vars(card_data)
  /\ WF_vars(card_accept)
  /\ WF_vars(sb16_interrupt \/ sb16_interrupt_more)

----------------------------------------------------------------------------
(* The driver on a valid header, for every placement of the buffer *)

\* a header sb16_init accepts
ValidHeader ==
  [wav_magic |-> MagicWave, fmt_chunk |-> FmtTag, format |-> 1, nchannels |-> 2,
   rate |-> 44100, bps |-> 16]

InitDma ==
  /\ in_use = 0
  /\ int_flag = 1
  /\ buffer \in PlacementAddrs
  /\ irq_on = FALSE
  /\ pc = [c \in Callers |-> "idle"]
  /\ op = [c \in Callers |-> "none"]
  /\ last = [c \in Callers |-> "none"]
  /\ info_block = [c \in Callers |-> NULL]
  /\ i = [c \in Callers |-> 0]
  /\ rd = [c \in Callers |-> 0]
  /\ got = [c \in Callers |-> 0]
  /\ rst = [c \in Callers |-> 0]
  /\ k = [c \in Callers |-> 0]
  /\ ret = [c \in Callers |-> 0]
  /\ msg = [c \in Callers |-> ""]
  /\ io = [c \in Callers |-> <<>>]
  /\ poll_rdy = FALSE
  /\ write_bsy = FALSE
  /\ playing = FALSE
  /\ hw_half = 0
  /\ toggles = 0
  /\ seen = <<>>
  /\ mpc = "off"
  /\ init_retval = 0
  /\ prev_cstatus = 0
  /\ temp = 0
  /\ fleft = 0
  /\ refills = 0
  /\ wr = <<>>
  /\ fread = 0
  /\ held = [h \in 0..(BUF_DIM - 1) |-> 0]
  /\ played = <<>>

CallInitValid(c) ==
  /\ Enter(c, "sb16_init", "init", Ptr(ValidHeader))
  /\ UNCHANGED <<drv, card, cons>>

NextDma ==
  \/ CallInitValid(1)
  \/ CallShutdown(1)
  \/ Driver(1)
  \/ Card

SpecDma == InitDma /\ [][NextDma]_vars

----------------------------------------------------------------------------
(* Two callers in sb16_init at once, on a card that is never shut down *)

\* a step of sb16_init on behalf of caller c
InitStep(c) ==
  \/ sb16_init_enter(c)
  \/ sb16_reset_pulse(c)
  \/ sb16_reset_poll(c)
  \/ sb16_init_check(c)
  \/ sb16_init_dma(c)
  \/ sb16_init_dsp(c)
  \/ sb16_init_in_use(c)
  \/ sb16_init_int_flag(c)

NextTwo ==
  \/ \E c \in Callers : CallInitValid(c)
  \/ \E c \in Callers : InitStep(c)
  \/ Card

SpecTwo == Init /\ [][NextTwo]_vars

----------------------------------------------------------------------------
(* Properties *)

MsgInUse == "Another process is using the SB16. Terminate it and try again."
MsgReset == "SB16 initialization failed. Check hardware."
MsgNotWav == "Not a wav file."
MsgCompressed == "Only uncompressed music is supported."
MsgNotStereo16 == "Only 16-bit stereo audio is supported."
HeaderMsgs == {MsgNotWav, MsgCompressed, MsgNotStereo16}

DmaPorts ==
  {"DMA_MASK_PORT", "DMA_CLR_PTR_PORT", "DMA_MODE_PORT", "DMA_BASE_ADDR",
   "DMA_COUNT_PORT", "DMA_PAGE_PORT"}

\* no DMA register and no DSP command byte was written in the log
NoProgramming(log) ==
  \A j \in 1..Len(log) : log[j].port \notin DmaPorts \cup {"SB16_WRITE_PORT"}

\* caller c has returned from entry point f
Returned(c, f) == pc[c] = "idle" /\ op[c] = f

\* the reset handshake of c's call has ended with the ready byte read within
\* the budget of WAITLOOP reads
HandshakeOk(c) == rd[c] >= 1 /\ rd[c] <= WAITLOOP /\ got[c] = SUCCESS_VAL

\* C1: sb16_init entered while in_use is set returns -1 (already in use) and
\* changes neither in_use nor int_flag, and writes no DMA or DSP register; a
\* successful sb16_init leaves in_use set, and only sb16_shutdown clears it, so
\* a second sb16_init with no sb16_shutdown in between never succeeds.
C1_BusyRejected ==
  [][/\ \A c \in Callers :
          /\ (pc[c] = "init" /\ pc'[c] # "init" /\ in_use # 0) =>
               /\ pc'[c] = "idle" /\ ret'[c] = -1 /\ msg'[c] = MsgInUse
               /\ in_use' = in_use /\ int_flag' = int_flag
               /\ NoProgramming(io'[c])
          /\ (pc[c] = "set_int_flag" /\ pc'[c] = "idle") => in_use' = 1
          /\ (pc[c] = "set_in_use" /\ pc'[c] # "set_in_use") => in_use = 0
     /\ (in_use # 0 /\ in_use' = 0) =>
          \E c \in Callers : op[c] = "sb16_shutdown" /\ pc[c] = "reset_done"]_vars

\* a second sb16_init, straight after a successful one, has been rejected
C1_Witness ==
  /\ Returned(1, "sb16_init") /\ last[1] = "sb16_init"
  /\ msg[1] = MsgInUse /\ ret[1] = -1 /\ in_use = 1

\* C2: when the reset handshake fails, sb16_init returns -1 with the hardware
\* message, in_use stays 0 and no DMA or DSP register is written.
C2_ResetFailureFatal ==
  \A c \in Callers :
    (op[c] = "sb16_init" /\ pc[c] \notin {"init", "reset", "reset_poll"}
       /\ rd[c] >= 1 /\ ~HandshakeOk(c)) =>
      /\ pc[c] \in {"reset_done", "idle"}
      /\ NoProgramming(io[c])
      /\ in_use = 0
      /\ pc[c] = "idle" => (ret[c] = -1 /\ msg[c] = MsgReset)

\* C3: sb16_reset returns 0 or above exactly when the ready byte was read
\* within WAITLOOP reads (at once when it is the first byte read), and returns
\* -1 after exactly WAITLOOP reads when the ready byte never came.
C3_ResetValue ==
  \A c \in Callers :
    pc[c] = "reset_done" =>
      /\ rst[c] >= 0 <=> HandshakeOk(c)
      /\ (got[c] = SUCCESS_VAL /\ rd[c] = 1) => rst[c] >= 0
      /\ got[c] # SUCCESS_VAL => (rst[c] = -1 /\ rd[c] = WAITLOOP)

\* the header passes the checks as the specification words them: both tags,
\* format code 1, two channels, 16 bits per sample
ClaimValid(h) ==
  /\ h.wav_magic = MagicWave /\ h.fmt_chunk = FmtTag
  /\ h.format = 1 /\ h.nchannels = 2 /\ h.bps = 16

\* C4: with the card free and the handshake succeeding, sb16_init accepts a
\* header exactly when the container tag and the format-chunk tag match,
\* the format code is 1, the channel count 2 and the bits per sample 16.
C4_AcceptIff ==
  \A c \in Callers :
    (Returned(c, "sb16_init") /\ HandshakeOk(c) /\ info_block[c] # NULL) =>
      (ret[c] # -1 <=> ClaimValid(info_block[c][1]))

\* the message of the first check, in the order tag, format code, channels and
\* bits, that header h fails ("" when it fails none)
FirstFailing(h) ==
  IF h.wav_magic # MagicWave THEN MsgNotWav
  ELSE IF h.format # 1 THEN MsgCompressed
  ELSE IF h.nchannels # 2 \/ h.bps # 16 THEN MsgNotStereo16
  ELSE ""

\* C5: a header that reaches the checks and fails one is rejected with the
\* message of the first check it fails, in the order: tag at WAV_MAGIC_LOC,
\* format code, channel count or bits per sample; and a header is rejected
\* with one of these messages only so.
C5_FirstFailingCheck ==
  \A c \in Callers :
    (Returned(c, "sb16_init") /\ info_block[c] # NULL) =>
      /\ msg[c] \in HeaderMsgs => (ret[c] = -1 /\ msg[c] = FirstFailing(info_block[c][1]))
      /\ (rd[c] >= 1 /\ rst[c] # -1 /\ FirstFailing(info_block[c][1]) # "") =>
           (ret[c] = -1 /\ msg[c] = FirstFailing(info_block[c][1]))

\* a header failing all three checks has been rejected as not a wav file, and
\* one failing the last two as compressed
C5_Witness ==
  /\ Returned(1, "sb16_init") /\ info_block[1] # NULL
  /\ info_block[1][1].wav_magic = MagicRev
  /\ info_block[1][1].format = 17 /\ info_block[1][1].nchannels = 1
  /\ msg[1] = MsgNotWav /\ ret[1] = -1

\* C6: an sb16_init that rejects the header has touched no hardware (no port
\* write, no enabling of the interrupt line) and leaves in_use at 0 and
\* int_flag as it was.
C6_RejectionTouchesNothing ==
  \A c \in Callers :
    (Returned(c, "sb16_init") /\ msg[c] \in HeaderMsgs) =>
      /\ io[c] = <<>>
      /\ in_use = 0
      /\ int_flag = 1

\* the header passes the four checks sb16_init makes
CodeValid(h) ==
  h.wav_magic = MagicWave /\ h.format = 1 /\ h.nchannels = 2 /\ h.bps = 16

\* C7: sb16_init on a free card, with the handshake succeeding and a valid
\* header, ends with in_use = 1 and int_flag = 1 and returns the address of
\* the static buffer, whose halves are at that address and BUF_SIZE above it;
\* the address never changes.
C7_InitSuccess ==
  /\ [](\A c \in Callers :
          (Returned(c, "sb16_init") /\ HandshakeOk(c) /\ info_block[c] # NULL
             /\ CodeValid(info_block[c][1])) =>
            /\ ret[c] = buffer_half(0) /\ ret[c] + BUF_SIZE = buffer_half(1)
            /\ in_use = 1
            /\ int_flag = (1 + Len(seen)) % 2)
  /\ [][/\ \A c \in Callers :
            (pc[c] = "set_int_flag" /\ pc'[c] = "idle") =>
              (in_use' = 1 /\ int_flag' = 1 /\ ret'[c] = buffer)
        /\ buffer' = buffer]_vars

\* sb16_init has succeeded in a session that follows a shutdown
C7_Witness ==
  /\ Returned(1, "sb16_init") /\ last[1] = "sb16_shutdown"
  /\ HandshakeOk(1) /\ info_block[1] # NULL /\ CodeValid(info_block[1][1])
  /\ ret[1] = buffer /\ in_use = 1 /\ int_flag = 1

\* C8: sb16_shutdown, from whatever state, returns 0 with in_use = 0 and
\* int_flag = 1; so does a second sb16_shutdown straight after it.
C8_Shutdown ==
  \A c \in Callers :
    Returned(c, "sb16_shutdown") => (ret[c] = 0 /\ in_use = 0 /\ int_flag = 1)

\* a second sb16_shutdown in a row has returned, its handshake having failed
C8_Witness ==
  /\ Returned(1, "sb16_shutdown") /\ last[1] = "sb16_shutdown"
  /\ ~HandshakeOk(1)
  /\ ret[1] = 0 /\ in_use = 0 /\ int_flag = 1

\* C9: every run of the interrupt handler flips int_flag once: the values
\* sb16_copy_status returns after each of the interrupts that follow a write
\* of the baseline are 0, 1, 0, ... and int_flag is always 0 or 1.
C9_Toggle ==
  /\ [](/\ int_flag \in {0, 1}
        /\ \A j \in 1..Len(seen) : seen[j] = (j + 1) % 2)
  /\ [][toggles' = toggles + 1 => int_flag' = 1 - int_flag]_vars

\* three interrupts in a row have been handled
C9_Witness == Len(seen) >= 3 /\ seen[1] = 0 /\ seen[2] = 1 /\ seen[3] = 0

\* C10: every refill of the consumer's loop writes the half the card is not
\* in at that moment, and the refills never outnumber the interrupts by more
\* than one.
C10_RefillIdleHalf ==
  /\ wr # <<>> => wr[1] # wr[2]
  /\ refills <= toggles + 1

\* a session is active: sb16_init has set in_use and written the baseline, the
\* card transfers the buffer, and sb16_shutdown has not reset the card yet
ActiveSession ==
  in_use = 1 /\ playing /\ \A c \in Callers : pc[c] # "set_int_flag"

\* C11 as stated: in an active session int_flag is the index of the half the
\* card is in, and the consumer refills the other half, 1 - status.
C11_StatusIsActiveHalf ==
  /\ ActiveSession => int_flag = hw_half
  /\ wr # <<>> => wr[1] = 1 - prev_cstatus

\* C11 (amended): the card starts on half 0 when armed and int_flag is then
\* at its baseline 1; each interrupt moves the card to the other half and
\* flips int_flag. So in an active session int_flag is the index of the half
\* the card is NOT in, 1 - half, off by one flip for each interrupt taken
\* between the arming and sb16_init's own write of the baseline; and the
\* half the consumer refills is the one whose index is the status it read.
C11_StatusIsIdleHalf ==
  /\ [](ActiveSession => int_flag = ((1 - hw_half) + (toggles - Len(seen))) % 2)
  /\ []((ActiveSession /\ toggles = Len(seen)) => int_flag = 1 - hw_half)
  /\ [](wr # <<>> => wr[1] = prev_cstatus)
  /\ [][/\ (~playing /\ playing') => (hw_half' = 0 /\ int_flag' = 1)
        /\ refills' = refills + 1 => (wr'[1] = temp /\ prev_cstatus' = temp)]_vars

\* after the first interrupt of the session the consumer has read status 0 and
\* refilled half 0, with the card in half 1
C11_Witness ==
  /\ ActiveSession /\ toggles = 1 /\ Len(seen) = 1
  /\ int_flag = 0 /\ hw_half = 1
  /\ wr = <<0, 1>> /\ refills = 2

\* the values written to a port, in order
Written(log, port) ==
  LET sel == SelectSeq(log, LAMBDA e : e.port = port)
  IN  [j \in 1..Len(sel) |-> sel[j].val]

\* the DMA offset and page the claim gives for base address a
OffsetOf(a) == (a \div 2) % 65536
PageOf(a) == (a \div 65536) % 256

\* a base address a 16-bit DMA channel can reach: word-aligned, below 16 MiB
ValidAddr(a) == a % 2 = 0 /\ a < 16777216

\* the address a 16-bit DMA channel forms: bits 7..1 of the page register over
\* the 16-bit word offset
Reconstruct(off, page) == (page \div 2) * 131072 + off * 2

\* dma_init of caller c's sb16_init has run to its end
DmaDone(c) ==
  op[c] = "sb16_init" /\ pc[c] \in {"dsp", "set_in_use", "set_int_flag"}

\* C12: for the buffer at address A, sb16_init writes to the DMA offset
\* register the two bytes of (A >> 1) mod 65536 and to the page register
\* A >> 16 as an 8-bit value; for A word-aligned and below 16 MiB the pair
\* gives back A, and no other such address has the same pair.
C12_Placement ==
  \A c \in Callers :
    DmaDone(c) =>
      LET base == Written(io[c], "DMA_BASE_ADDR")
          page == Written(io[c], "DMA_PAGE_PORT")
          off == base[1] + 256 * base[2]
      IN  /\ Len(base) = 2 /\ Len(page) = 1
          /\ base[1] \in 0..255 /\ base[2] \in 0..255 /\ page[1] \in 0..255
          /\ off = OffsetOf(buffer)
          /\ page[1] = PageOf(buffer)
          /\ ValidAddr(buffer) =>
               /\ Reconstruct(off, page[1]) = buffer
               /\ \A a \in PlacementAddrs :
                    (ValidAddr(a) /\ OffsetOf(a) = off /\ PageOf(a) = page[1])
                      => a = buffer

\* the DMA has been programmed for a buffer at 0x51A2C0: bit 16 of the address
\* is in both the offset and the page
C12_Witness ==
  /\ DmaDone(1) /\ buffer = 5350080
  /\ Written(io[1], "DMA_BASE_ADDR") = <<96, 209>>
  /\ Written(io[1], "DMA_PAGE_PORT") = <<81>>

\* the positions of the log at which one of the ports is written
At(log, ports) == {j \in 1..Len(log) : log[j].port \in ports}

\* C13: in sb16_init, sb16_reset has returned before the first DMA register
\* is written; every DMA write, the last of them the unmask of the channel,
\* comes before the first byte written to the DSP; and in_use is set only
\* after the last of the DSP's bytes, by a call that then returns the buffer.
C13_Order ==
  /\ [](\A c \in Callers :
          op[c] = "sb16_init" =>
            LET rs == At(io[c], {"SB16_RESET_PORT"})
                dm == At(io[c], DmaPorts)
                ds == At(io[c], {"SB16_WRITE_PORT"})
            IN  /\ dm # {} =>
                     /\ pc[c] \notin {"init", "reset", "reset_poll", "reset_done"}
                     /\ rd[c] >= 1
                     /\ rs # {} /\ \A r \in rs, d \in dm : r < d
                /\ ds # {} =>
                     /\ \A d \in dm, w \in ds : d < w
                     /\ dm # {}
                     /\ \E d \in dm :
                          /\ \A e \in dm : e <= d
                          /\ io[c][d].port = "DMA_MASK_PORT"
                          /\ io[c][d].sym = "DMA_START_MASK"
                          /\ \A w \in ds : d < w
                /\ pc[c] = "dma" => ds = {}
                /\ (pc[c] = "idle" /\ ret[c] # -1) =>
                     (dm # {} /\ Cardinality(ds) = 7 /\ in_use = 1))
  /\ [][(in_use = 0 /\ in_use' = 1) =>
          \E c \in Callers :
            /\ op[c] = "sb16_init" /\ pc'[c] = "set_int_flag"
            /\ Cardinality(At(io[c], {"SB16_WRITE_PORT"})) = 7
            /\ io'[c] = io[c]]_vars

\* a successful sb16_init has returned: the interrupt line, the reset pulse,
\* nine DMA writes and seven DSP bytes are in its log
C13_Witness ==
  /\ Returned(1, "sb16_init") /\ ret[1] = buffer /\ in_use = 1
  /\ Len(io[1]) = 19
  /\ At(io[1], DmaPorts) = 4..12
  /\ At(io[1], {"SB16_WRITE_PORT"}) = 13..19

\* the writes of the log to the DMA registers, in order, as <<port, what>>
DmaWrites(log) ==
  LET sel == SelectSeq(log, LAMBDA e : e.port \in DmaPorts)
  IN  [j \in 1..Len(sel) |-> <<sel[j].port, sel[j].sym>>]

IsPrefix(s, t) == Len(s) <= Len(t) /\ \A j \in 1..Len(s) : s[j] = t[j]

\* the order of the claim: the page register before the transfer count
ClaimedDmaOrder ==
  << <<"DMA_MASK_PORT", "DMA_STOP_MASK">>, <<"DMA_CLR_PTR_PORT", "0">>,
     <<"DMA_MODE_PORT", "DMA_MODE">>,
     <<"DMA_BASE_ADDR", "lo_byte(buf_offset)">>, <<"DMA_BASE_ADDR", "hi_byte(buf_offset)">>,
     <<"DMA_PAGE_PORT", "buf_page">>,
     <<"DMA_COUNT_PORT", "lo_byte(buf_length)">>, <<"DMA_COUNT_PORT", "hi_byte(buf_length)">>,
     <<"DMA_MASK_PORT", "DMA_START_MASK">> >>

\* the same with the transfer count before the page register
AmendedDmaOrder ==
  << <<"DMA_MASK_PORT", "DMA_STOP_MASK">>, <<"DMA_CLR_PTR_PORT", "0">>,
     <<"DMA_MODE_PORT", "DMA_MODE">>,
     <<"DMA_BASE_ADDR", "lo_byte(buf_offset)">>, <<"DMA_BASE_ADDR", "hi_byte(buf_offset)">>,
     <<"DMA_COUNT_PORT", "lo_byte(buf_length)">>, <<"DMA_COUNT_PORT", "hi_byte(buf_length)">>,
     <<"DMA_PAGE_PORT", "buf_page">>,
     <<"DMA_MASK_PORT", "DMA_START_MASK">> >>

\* C14 as stated: the DMA registers are written in the order mask, clear
\* flip-flop, mode, offset low, offset high, page, count low, count high,
\* unmask.
C14_DmaOrderClaimed ==
  \A c \in Callers :
    /\ IsPrefix(DmaWrites(io[c]), ClaimedDmaOrder)
    /\ DmaDone(c) => DmaWrites(io[c]) = ClaimedDmaOrder

\* C14 (amended): the DMA registers are written in the order mask, clear
\* flip-flop, mode, offset low, offset high, count low, count high, page,
\* unmask; the low and high bytes are those of the offset and of the count
\* BUF_SIZE - 1; every write to a channel register lies between the mask and
\* the unmask of the same call.
C14_DmaOrder ==
  \A c \in Callers :
    /\ IsPrefix(DmaWrites(io[c]), AmendedDmaOrder)
    /\ DmaDone(c) =>
         /\ DmaWrites(io[c]) = AmendedDmaOrder
         /\ Written(io[c], "DMA_BASE_ADDR")
              = <<OffsetOf(buffer) % 256, OffsetOf(buffer) \div 256>>
         /\ Written(io[c], "DMA_COUNT_PORT") = <<255, 127>>
    /\ \A j \in At(io[c], DmaPorts \ {"DMA_MASK_PORT"}) :
         /\ \E m \in 1..(j - 1) : io[c][m].sym = "DMA_STOP_MASK"
         /\ \A m \in 1..(j - 1) : io[c][m].sym # "DMA_START_MASK"

\* dma_init has written the page register after the count and not yet
\* unmasked the channel
C14_Witness ==
  /\ pc[1] = "dma" /\ k[1] = 9
  /\ Len(DmaWrites(io[1])) = 8
  /\ DmaWrites(io[1])[7] = <<"DMA_COUNT_PORT", "hi_byte(buf_length)">>
  /\ DmaWrites(io[1])[8] = <<"DMA_PAGE_PORT", "buf_page">>

\* what the log writes to the DSP's write port, in order
DspWrites(log) ==
  LET sel == SelectSeq(log, LAMBDA e : e.port = "SB16_WRITE_PORT")
  IN  [j \in 1..Len(sel) |-> sel[j].sym]

\* the seven bytes of the claim
DspOrder ==
  << "DSP_OUT_RATE_CMD", "hi_byte(sample_rate)", "lo_byte(sample_rate)",
     "DSP_BCOMMAND", "DSP_BMODE", "lo_byte(block_length)", "hi_byte(block_length)" >>

\* dsp_init of caller c's sb16_init has run to its end
DspDone(c) ==
  \/ op[c] = "sb16_init" /\ pc[c] \in {"set_in_use", "set_int_flag"}
  \/ Returned(c, "sb16_init") /\ ret[c] # -1

C16_ResetTerminates ==
  \A c \in Callers :
    /\ (pc[c] = "reset") ~> (pc[c] = "reset_done")
    /\ (op[c] = "sb16_shutdown" /\ pc[c] = "reset") ~> Returned(c, "sb16_shutdown")

\* C17: from the arming of the DSP to the next reset of the card, int_flag is
\* the baseline 1 flipped once for each interrupt handled since the arming,
\* and it changes only in the interrupt handler.
C17_OnlyInterruptWrites ==
  /\ [](playing => int_flag = (1 + toggles) % 2)
  /\ [][(playing /\ playing' /\ int_flag' # int_flag) => toggles' = toggles + 1]_vars

\* the card has finished playing block b
Played(b) == \E j \in 1..Len(played) : played[j] = b

\* C18: the consumer writes a half only when it holds no block or the card
\* has finished playing the block it holds (the two initial blocks included),
\* so that no block read from the file is lost before it is played.
C18_NoUnplayedOverwrite ==
  [][\A h \in DOMAIN held :
       held'[h] # held[h] => (held[h] = 0 \/ Played(held[h]))]_vars

\* caller c's last call was an sb16_init that returned the buffer
HoldsBuffer(c) == Returned(c, "sb16_init") /\ ret[c] # -1

\* C19: with no sb16_shutdown in between, at most one caller's sb16_init
\* succeeds, however the two calls interleave, and in_use is set only from 0.
C19_OneSession ==
  /\ [](Cardinality({c \in Callers : HoldsBuffer(c)}) <= 1)
  /\ [][in_use' = 1 => (in_use = 0 \/ in_use' = in_use)]_vars

\* C20: with the card raising its interrupts and answering every poll, the
\* consumer of a finite file whose sb16_init succeeded comes to call
\* sb16_shutdown and exits with in_use back at 0; a consumer whose sb16_init
\* failed exits with in_use at 0.
C20_SessionEnds ==
  /\ (mpc = "fill0") ~> (mpc = "shutdown")
  /\ (mpc = "fill0") ~> (mpc = "exit" /\ in_use = 0)
  /\ [](mpc = "exit" => in_use = 0)

====
